---- MODULE Spec2Model ----
(***************************************************************************)
(* LeetCode SQL daily tracker (src/app.py): the per-user history document, *)
(* the Streamlit script run that loads it and derives the KPIs, the        *)
(* trailing chart window and the forward status cards, the sidebar         *)
(* handlers that write the document back, and the streak loop.             *)
(*                                                                         *)
(* Python values are tagged records:                                       *)
(*   an int n            [kind |-> "int",  n |-> n]                        *)
(*   a dict d            [kind |-> "dict", d |-> d]  (d: field -> int)     *)
(*   a str s             [kind |-> "str",  s |-> s]                        *)
(*   None                [kind |-> "none"]                                 *)
(* A datetime.date is its proleptic Gregorian ordinal (date.toordinal()).  *)
(* The string strftime("%Y-%m-%d") makes of it is the tuple <<y, m, d>>;   *)
(* the reserved key "leetcode_list_url" is the tuple <<"leetcode_list_url">>*)
(* so that every key of the document is a tuple.                           *)
(***************************************************************************)
EXTENDS Integers, Sequences, FiniteSets, TLC

\* ------------------------------------------------------------------ constants

DAILY_GOAL == 25

\* timedelta(days=365 * 2) of calculate_current_streak
STREAK_LIMIT_DAYS == 365 * 2

\* st.session_state.get('days_to_display_input', 7)
DEFAULT_DAYS_TO_DISPLAY == 7

REMINDER_INTERVAL_MINUTES == 30

LEETCODE_LIST_URL == <<"leetcode_list_url">>

DEFAULT_LIST_URL == "https://leetcode.com/problem-list/n7bysmt7/"

FIELDS == {"easy", "medium", "hard"}

\* ------------------------------------------------------------ Python values

IntV(n) == [kind |-> "int", n |-> n]

DictV(d) == [kind |-> "dict", d |-> d]

StrV(s) == [kind |-> "str", s |-> s]

NoneV == [kind |-> "none"]

\* {"easy": e, "medium": m, "hard": h}
Rec(e, m, h) == DictV([f \in FIELDS |-> CASE f = "easy" -> e [] f = "medium" -> m [] OTHER -> h])

\* data.get(key, default)
Get(data, key, default) == IF key \in DOMAIN data THEN data[key] ELSE default

\* d.get(field, 0) on a dict value
Get0(v, field) == IF field \in DOMAIN v.d THEN v.d[field] ELSE 0

\* v.get('easy', 0) + v.get('medium', 0) + v.get('hard', 0)
SumOfFields(v) == Get0(v, "easy") + Get0(v, "medium") + Get0(v, "hard")

\* data[key] = value
Put(data, key, value) == [k \in DOMAIN data \cup {key} |-> IF k = key THEN value ELSE data[k]]

\* ----------------------------------------------------------------- calendar

\* date.strftime("%Y-%m-%d"): the civil date of an ordinal, as <<y, m, d>>
strftime(ordinal) ==
    LET z == ordinal + 305
        era == z \div 146097
        doe == z - era * 146097
        yoe == (doe - doe \div 1460 + doe \div 36524 - doe \div 146096) \div 365
        doy == doe - (365 * yoe + yoe \div 4 - yoe \div 100)
        mp == (5 * doy + 2) \div 153
        d == doy - (153 * mp + 2) \div 5 + 1
        m == IF mp < 10 THEN mp + 3 ELSE mp - 9
        y == yoe + era * 400 + (IF m <= 2 THEN 1 ELSE 0)
    IN  <<y, m, d>>

\* datetime.date(y, m, d).toordinal()
Ordinal(y, m, d) ==
    LET yy == IF m <= 2 THEN y - 1 ELSE y
        era == yy \div 400
        yoe == yy - era * 400
        mp == IF m > 2 THEN m - 3 ELSE m + 9
        doy == (153 * mp + 2) \div 5 + d - 1
        doe == yoe * 365 + yoe \div 4 - yoe \div 100 + doy
    IN  era * 146097 + doe - 305

\* whether pd.to_datetime accepts a key: a "%Y-%m-%d" string, not the reserved key
IsDateKey(key) == Len(key) = 3

\* pd.to_datetime(key) of a date key, as the date's ordinal
to_datetime(key) == Ordinal(key[1], key[2], key[3])

\* ------------------------------------------------- calculate_current_streak

\* StreakBody without the isinstance(.., int) branch: a legacy integer counts 0
StreakBody_NoLegacyInt(data, daily_goal, today, current_date, streak) ==
    LET daily_problems_dict == Get(data, strftime(current_date), NoneV)
        breaks_on_none == daily_problems_dict.kind = "none" /\ current_date # today
        questions_solved ==
            IF daily_problems_dict.kind = "dict" THEN SumOfFields(daily_problems_dict) ELSE 0
    IN  IF breaks_on_none \/ ~(questions_solved >= daily_goal)
        THEN [break |-> TRUE, streak |-> streak, current_date |-> current_date]
        ELSE [break |-> FALSE, streak |-> streak + 1, current_date |-> current_date - 1]

\* One pass through the body of the while loop, for the date current_date:
\* whether it breaks, and the streak and current_date it leaves.
StreakBody(data, daily_goal, today, current_date, streak) ==
    LET date_str == strftime(current_date)
        daily_problems_dict == Get(data, date_str, NoneV)
        breaks_on_none == daily_problems_dict.kind = "none" /\ current_date # today
        questions_solved ==
            CASE daily_problems_dict.kind = "int" -> daily_problems_dict.n
              [] daily_problems_dict.kind = "dict" -> SumOfFields(daily_problems_dict)
              [] OTHER -> 0
    IN  IF breaks_on_none \/ ~(questions_solved >= daily_goal)
        THEN [break |-> TRUE, streak |-> streak, current_date |-> current_date]
        ELSE [break |-> FALSE, streak |-> streak + 1, current_date |-> current_date - 1]

\* limit_date one day further back
limit_date_OneMore(today) == today - STREAK_LIMIT_DAYS - 1

\* today - timedelta(days=365 * 2)
limit_date(today) == today - STREAK_LIMIT_DAYS

RECURSIVE StreakLoop(_, _, _, _, _)
StreakLoop(data, daily_goal, today, current_date, streak) ==
    IF ~(current_date >= limit_date(today))
    THEN streak
    ELSE LET r == StreakBody(data, daily_goal, today, current_date, streak)
         IN  IF r.break THEN r.streak
             ELSE StreakLoop(data, daily_goal, today, r.current_date, r.streak)

calculate_current_streak(data, daily_goal, today) ==
    StreakLoop(data, daily_goal, today, today, 0)

\* ------------------------------------------------------- chart preparation

NO_ERROR == "none"

ZeroRow == [easy |-> 0, medium |-> 0, hard |-> 0]

\* daily_progress_data_only without the filter on the reserved key
daily_progress_data_Unfiltered(data) == data

\* {k: v for k, v in data.items() if k != "leetcode_list_url"}
daily_progress_data_only(data) ==
    [k \in {k \in DOMAIN data : k # LEETCODE_LIST_URL} |-> data[k]]

\* DataFrame.from_dict(orient='index') looks at the first value of the dict to
\* choose between the nested-dict path (first_is_dict) and the list path. Which
\* key the dict read from Firestore iterates first is not fixed by the code:
\* the first value may be any value of the dict.
FirstKinds(dp) == {dp[k].kind = "dict" : k \in DOMAIN dp}

\* The index of the frame from_dict builds: on the nested-dict path the keys
\* that contribute a column, otherwise every key.
RawIndex(dp, first_is_dict) ==
    IF first_is_dict THEN {k \in DOMAIN dp : DOMAIN dp[k].d # {}} ELSE DOMAIN dp

\* The exception lines 224-227 raise, if any. On the nested-dict path every
\* value must have .items(); pd.to_datetime must parse every index label.
chart_error(dp, first_is_dict) ==
    IF first_is_dict /\ \E k \in DOMAIN dp : dp[k].kind # "dict"
    THEN "AttributeError:224"
    ELSE IF \E k \in RawIndex(dp, first_is_dict) : ~IsDateKey(k)
    THEN "ValueError:226"
    ELSE NO_ERROR

\* df_chart_historical_raw after reindex(columns=...).fillna(0).astype(int) and
\* to_datetime: date ordinal -> row. Off the nested-dict path the only column
\* is 0, so every row is filled with zeros.
df_chart_historical_raw(dp, first_is_dict) ==
    [o \in {to_datetime(k) : k \in RawIndex(dp, first_is_dict)} |->
        IF first_is_dict
        THEN LET v == dp[strftime(o)]
             IN  [easy |-> Get0(v, "easy"), medium |-> Get0(v, "medium"), hard |-> Get0(v, "hard")]
        ELSE ZeroRow]

\* One row of df_chart_display / df_status_cards with its derived columns
WithDerived(date, row) ==
    [Date |-> date, easy |-> row.easy, medium |-> row.medium, hard |-> row.hard,
     Questions_Solved |-> row.easy + row.medium + row.hard,
     Met_Goal |-> row.easy + row.medium + row.hard >= DAILY_GOAL]

\* start_date_chart = end_date_chart - timedelta(days=default_days_to_display - 1)
start_date_chart(n, today) == today - (n - 1)

\* reindex(full_date_range).fillna(0), then the derived columns (lines 232-243)
chart_display(raw, n, today) ==
    [x \in 1..n |->
        LET date == start_date_chart(n, today) + (x - 1)
        IN  WithDerived(date, IF date \in DOMAIN raw THEN raw[date] ELSE ZeroRow)]

\* --------------------------------------------------------------------- KPIs

EmptyDict == DictV([f \in {} |-> 0])

\* line 261
today_difficulty_data(data, today) == Get(data, strftime(today), EmptyDict)

\* line 262 calls .get on it
today_error(data, today) ==
    IF today_difficulty_data(data, today).kind = "dict" THEN NO_ERROR ELSE "AttributeError:262"

solved_today(data, today) == SumOfFields(today_difficulty_data(data, today))

\* (questions_solved_today / DAILY_GOAL) * 100 if DAILY_GOAL > 0 else 0;
\* exact in integers because DAILY_GOAL divides 100
goal_percentage(solved) == IF DAILY_GOAL > 0 THEN (solved * 100) \div DAILY_GOAL ELSE 0

RECURSIVE SumOver(_, _)
SumOver(data, keys) ==
    IF keys = {} THEN 0
    ELSE LET k == CHOOSE k \in keys : TRUE
         IN  SumOfFields(data[k]) + SumOver(data, keys \ {k})

\* lines 266-269
total_all_time(data) ==
    SumOver(data, {k \in DOMAIN data : k # LEETCODE_LIST_URL /\ data[k].kind = "dict"})

\* ------------------------------------------------------------------ sidebar

\* lines 302-304
current_counts(data, selected_date) ==
    LET v == Get(data, strftime(selected_date), Rec(0, 0, 0))
    IN  IF v.kind = "int" THEN Rec(v.n, 0, 0) ELSE v

\* lines 307-327: the three number_input(min_value=0, value=current_counts.get(..))
sidebar_error(data, selected_date) ==
    LET c == current_counts(data, selected_date)
    IN  IF c.kind # "dict" THEN "AttributeError:310"
        ELSE IF Get0(c, "easy") < 0 THEN "StreamlitAPIException:307"
        ELSE IF Get0(c, "medium") < 0 THEN "StreamlitAPIException:314"
        ELSE IF Get0(c, "hard") < 0 THEN "StreamlitAPIException:321"
        ELSE NO_ERROR

\* ------------------------------------------------------------- status cards

\* lines 536-542: a zero frame over the status dates, filled from the dict entries
status_row(data, date_str) ==
    LET v == Get(data, date_str, NoneV)
    IN  IF v.kind = "dict"
        THEN [easy |-> Get0(v, "easy"), medium |-> Get0(v, "medium"), hard |-> Get0(v, "hard")]
        ELSE ZeroRow

Min(a, b) == IF a <= b THEN a ELSE b

\* card with the percentage of a future date left as computed
card_KeepsPercentage(row, today) ==
    LET solved_count == row.Questions_Solved
        percentage == IF DAILY_GOAL > 0 THEN Min(100, (solved_count * 100) \div DAILY_GOAL) ELSE 0
    IN  [Date |-> row.Date, solved_count |-> solved_count, percentage |-> percentage,
         card_class |-> IF row.Date > today THEN "upcoming"
                        ELSE IF row.Met_Goal THEN "goal-met" ELSE "below-goal"]

\* card that also shows a day below the goal as upcoming
card_BelowGoalIsUpcoming(row, today) ==
    LET solved_count == row.Questions_Solved
        percentage == IF DAILY_GOAL > 0 THEN Min(100, (solved_count * 100) \div DAILY_GOAL) ELSE 0
    IN  IF row.Date > today \/ ~row.Met_Goal
        THEN [Date |-> row.Date, solved_count |-> solved_count, card_class |-> "upcoming", percentage |-> 0]
        ELSE [Date |-> row.Date, solved_count |-> solved_count, card_class |-> "goal-met", percentage |-> percentage]

\* lines 556-574
card(row, today) ==
    LET solved_count == row.Questions_Solved
        percentage == IF DAILY_GOAL > 0 THEN Min(100, (solved_count * 100) \div DAILY_GOAL) ELSE 0
    IN  IF row.Date > today
        THEN [Date |-> row.Date, solved_count |-> solved_count, card_class |-> "upcoming", percentage |-> 0]
        ELSE IF row.Met_Goal
        THEN [Date |-> row.Date, solved_count |-> solved_count, card_class |-> "goal-met", percentage |-> percentage]
        ELSE [Date |-> row.Date, solved_count |-> solved_count, card_class |-> "below-goal", percentage |-> percentage]

\* lines 532-574
status_cards(data, n, today) ==
    [x \in 1..n |->
        LET date_str == strftime(today + (x - 1))
        IN  card(WithDerived(to_datetime(date_str), status_row(data, date_str)), today)]

\* -------------------------------------------------------------------- state

VARIABLES
    db,                      \* the user's Firestore document: <<>> (none) or <<doc>>
    get_cache,               \* st.cache_data of get_user_data_from_firestore: <<>> or <<doc>>
    save_cache,              \* st.cache_data of save_data_to_firestore: the cached arguments
    today,                   \* datetime.now().date() of the latest script run
    days_to_display_input,   \* st.session_state['days_to_display_input'], <<>> while unset
    data,                    \* the dict the latest script run loaded
    error,                   \* the exception that ended the latest script run
    df_chart_display,        \* the trailing window, <<>> when not computed
    questions_solved_today,  \* <<>> when not computed, else <<n>>
    daily_goal_percentage,
    total_solved_all_time,
    current_streak,
    df_status_cards,         \* the status cards, <<>> when not computed
    pc,                      \* calculate_current_streak run on its own: "idle", "loop", "done"
    current_date,            \* its locals
    streak,
    date_str,                \* <<>> before the first pass through the loop body
    iterations,              \* how many times the loop body has run
    documents,               \* db.collection('users'): user_uid -> <<>> (none) or <<doc>>
    get_entries,             \* the cache of get_user_data_from_firestore: user_uid -> <<>> or <<doc>>
    save_entries,            \* the cache of save_data_to_firestore: the cached <<user_uid, doc>>
    loaded,                  \* user_uid -> the data of the user's latest script run, <<>> before it
    edit,                    \* the latest handler that saved, <<>> before the first
    edits,                   \* how many handlers have saved
    now,                     \* time.time() of the latest script run, in seconds
    app_load_time,           \* st.session_state.app_load_time, <<>> while unset
    reminder_triggered,      \* st.session_state.reminder_triggered, <<>> while unset
    reminder_shown,          \* whether the latest script run showed the reminder
    shown_since_reset        \* how many runs showed it since the timer was last set

storevars == <<db, get_cache, save_cache>>

viewvars == <<error, df_chart_display, questions_solved_today, daily_goal_percentage,
              total_solved_all_time, current_streak, df_status_cards>>

loopvars == <<pc, current_date, streak, date_str, iterations>>

usersvars == <<documents, get_entries, save_entries, loaded, edit, edits>>

remindervars == <<now, app_load_time, reminder_triggered, reminder_shown, shown_since_reset>>

vars == <<db, get_cache, save_cache, today, days_to_display_input, data, error,
          df_chart_display, questions_solved_today, daily_goal_percentage,
          total_solved_all_time, current_streak, df_status_cards, pc, current_date, streak,
          date_str, iterations, documents, get_entries, save_entries, loaded, edit, edits,
          now, app_load_time, reminder_triggered, reminder_shown, shown_since_reset>>

\* ------------------------------------------------------------------- bounds

\* how many days the clock may advance past the first day
MaxAdvance == 1

\* the largest window length the user types (the widget allows 1..365)
MaxDays == 1

\* how many days before today the user may select in the date input (the
\* widget allows any date up to today)
MaxBack == 0

FIRST_DAY == Ordinal(2024, 2, 29)

LAST_DAY == FIRST_DAY + MaxAdvance

CUSTOM_LIST_URL == "https://leetcode.com/problem-list/mine/"

\* what the key of the first day may hold in a stored document: a legacy
\* integer, records at and below the goal, a record with missing fields, a
\* value of another shape, a record with a negative field
STORED_VALUES ==
    {IntV(30), Rec(30, 0, 0), Rec(10, 5, 0), DictV([f \in {"easy"} |-> 30]),
     StrV("n/a"), Rec(0 - 5, 0, 0)}

\* what the key of the day before may hold
PAST_VALUES == {Rec(30, 0, 0)}

\* what the key of the day after may hold
FUTURE_VALUES == {Rec(30, 0, 0)}

\* what the user types into the list URL input
URL_INPUTS == {CUSTOM_LIST_URL}

\* what the user types into the three number inputs
COUNT_INPUTS == {<<30, 0, 0>>, <<10, 5, 0>>}

\* the document with the given values at the given dates (None: no key)
DocOf(values, url) ==
    LET dates == {o \in DOMAIN values : values[o].kind # "none"}
        keys == {strftime(o) : o \in dates} \cup (IF url.kind = "none" THEN {} ELSE {LEETCODE_LIST_URL})
    IN  [k \in keys |-> IF k = LEETCODE_LIST_URL THEN url ELSE values[to_datetime(k)]]

INIT_DOCS ==
    {DocOf(values, url) :
        values \in {v \in [(FIRST_DAY - 1)..(FIRST_DAY + 1) -> STORED_VALUES \cup {NoneV}] :
                        /\ v[FIRST_DAY - 1] \in PAST_VALUES \cup {NoneV}
                        /\ v[FIRST_DAY + 1] \in FUTURE_VALUES \cup {NoneV}},
        url \in {NoneV, StrV(CUSTOM_LIST_URL)}}

\* ------------------------------------------------------------ the store

\* get_user_data_from_firestore(user_uid) for the logged-in user, behind its cache
get_user_data_from_firestore(cache, doc) ==
    IF cache # <<>> THEN cache[1]
    ELSE IF doc # <<>> THEN doc[1]
    ELSE [k \in {LEETCODE_LIST_URL} |-> StrV(DEFAULT_LIST_URL)]

\* save_data_to_firestore without st.cache_data.clear()
save_data_to_firestore_NoClear(doc, gcache, scache, data_to_save) ==
    IF data_to_save \in scache
    THEN [db |-> doc, get_cache |-> gcache, save_cache |-> scache]
    ELSE [db |-> <<data_to_save>>, get_cache |-> gcache, save_cache |-> scache \cup {data_to_save}]

\* save_data_to_firestore(user_uid, data_to_save) for the logged-in user, behind
\* its cache: on a hit the body does not run; otherwise the document is set,
\* st.cache_data.clear() empties every cache, and the call is then cached.
save_data_to_firestore(doc, gcache, scache, data_to_save) ==
    IF data_to_save \in scache
    THEN [db |-> doc, get_cache |-> gcache, save_cache |-> scache]
    ELSE [db |-> <<data_to_save>>, get_cache |-> <<>>, save_cache |-> {data_to_save}]

\* ----------------------------------------------------------- the script run

\* default_days_to_display
default_days_to_display(session_days) ==
    IF session_days = <<>> THEN DEFAULT_DAYS_TO_DISPLAY ELSE session_days[1]

\* what the first value of the dict handed to from_dict may be: a dict or not
\* (an empty dict has no first value and builds an empty frame)
FirstOf(d) ==
    IF DOMAIN daily_progress_data_only(d) = {} THEN {FALSE}
    ELSE FirstKinds(daily_progress_data_only(d))

\* The exception that ends a run of the script over the loaded dict d, if any:
\* the chart preparation, then line 262, then the sidebar inputs.
script_error(d, first, t, selected_date) ==
    LET e1 == chart_error(daily_progress_data_only(d), first)
        e2 == IF e1 # NO_ERROR THEN e1 ELSE today_error(d, t)
    IN  IF e2 # NO_ERROR THEN e2 ELSE sidebar_error(d, selected_date)

\* One run of the script over the loaded dict d, top to bottom, with no button
\* pressed: what each block computes, up to the first exception.
RunScript(d, first, n, t, selected_date) ==
    LET dp == daily_progress_data_only(d)
        e1 == chart_error(dp, first)
        e2 == IF e1 # NO_ERROR THEN e1 ELSE today_error(d, t)
        e3 == script_error(d, first, t, selected_date)
        solved == solved_today(d, t)
    IN  [error |-> e3,
         df_chart_display |->
            IF e1 = NO_ERROR THEN chart_display(df_chart_historical_raw(dp, first), n, t) ELSE <<>>,
         questions_solved_today |-> IF e2 = NO_ERROR THEN <<solved>> ELSE <<>>,
         daily_goal_percentage |-> IF e2 = NO_ERROR THEN <<goal_percentage(solved)>> ELSE <<>>,
         total_solved_all_time |-> IF e2 = NO_ERROR THEN <<total_all_time(d)>> ELSE <<>>,
         current_streak |->
            IF e2 = NO_ERROR THEN <<calculate_current_streak(d, DAILY_GOAL, t)>> ELSE <<>>,
         df_status_cards |-> IF e3 = NO_ERROR THEN status_cards(d, n, t) ELSE <<>>]

Shows(out) ==
    /\ error' = out.error
    /\ df_chart_display' = out.df_chart_display
    /\ questions_solved_today' = out.questions_solved_today
    /\ daily_goal_percentage' = out.daily_goal_percentage
    /\ total_solved_all_time' = out.total_solved_all_time
    /\ current_streak' = out.current_streak
    /\ df_status_cards' = out.df_status_cards

\* Rerun with the migration of line 304 written back into data
Rerun_WritesMigrationBack(doc, gcache, n, t, selected_date) ==
    LET d == get_user_data_from_firestore(gcache, doc)
    IN  \E first \in FirstOf(d) :
            /\ get_cache' = <<d>>
            /\ data' = [k \in DOMAIN d |-> IF d[k].kind = "int" THEN Rec(d[k].n, 0, 0) ELSE d[k]]
            /\ today' = t
            /\ Shows(RunScript(d, first, n, t, selected_date))

\* A script run with no handler firing: load, compute, show.
Rerun(doc, gcache, n, t, selected_date) ==
    LET d == get_user_data_from_firestore(gcache, doc)
    IN  \E first \in FirstOf(d) :
            /\ get_cache' = <<d>>
            /\ data' = d
            /\ today' = t
            /\ Shows(RunScript(d, first, n, t, selected_date))

\* what datetime.now().date() may return in the next run
Clock == today..LAST_DAY

Selectable(t) == (t - MaxBack)..t

\* ------------------------------------------------------------------ actions

Init ==
    /\ db \in {<<>>} \cup {<<d>> : d \in INIT_DOCS}
    /\ get_cache = <<>>
    /\ save_cache = {}
    /\ today = FIRST_DAY
    /\ days_to_display_input = <<>>
    /\ data = <<>>
    /\ error = "not run"
    /\ df_chart_display = <<>>
    /\ questions_solved_today = <<>>
    /\ daily_goal_percentage = <<>>
    /\ total_solved_all_time = <<>>
    /\ current_streak = <<>>
    /\ df_status_cards = <<>>
    /\ pc = "idle"
    /\ current_date = FIRST_DAY
    /\ streak = 0
    /\ date_str = <<>>
    /\ iterations = 0
    /\ documents = <<>>
    /\ get_entries = <<>>
    /\ save_entries = {}
    /\ loaded = <<>>
    /\ edit = <<>>
    /\ edits = 0
    /\ now = 0
    /\ app_load_time = <<>>
    /\ reminder_triggered = <<>>
    /\ reminder_shown = FALSE
    /\ shown_since_reset = 0

\* The browser opens or refreshes the page, or the user picks a date.
Render(t, selected_date) ==
    /\ Rerun(db, get_cache, default_days_to_display(days_to_display_input), t, selected_date)
    /\ UNCHANGED <<db, save_cache, days_to_display_input, loopvars, usersvars, remindervars>>

\* A handler that mutates data, saves it and calls st.rerun() (lines 329-332,
\* 344-348). The widget was drawn by the latest run, and the run the widget
\* starts reaches the handler only when nothing before it raises. (A handler
\* run on a later day than the latest run is Render on that day followed by
\* the handler.)
SaveAndRerun(selected_date, key, value) ==
    LET d == get_user_data_from_firestore(get_cache, db)
        n == default_days_to_display(days_to_display_input)
    IN  /\ error = NO_ERROR
        /\ \E first \in FirstOf(d) : script_error(d, first, today, selected_date) = NO_ERROR
        /\ LET saved == save_data_to_firestore(db, <<d>>, save_cache, Put(d, key, value))
           IN  /\ db' = saved.db
               /\ save_cache' = saved.save_cache
               /\ Rerun(saved.db, saved.get_cache, n, today, selected_date)
        /\ UNCHANGED <<days_to_display_input, loopvars, usersvars, remindervars>>

\* "Save Progress"
SaveProgress(selected_date, counts) ==
    SaveAndRerun(selected_date, strftime(selected_date), Rec(counts[1], counts[2], counts[3]))

\* the list URL text input changed
UpdateUrl(selected_date, new_leetcode_list_url) ==
    /\ new_leetcode_list_url #
          Get(get_user_data_from_firestore(get_cache, db), LEETCODE_LIST_URL, StrV(DEFAULT_LIST_URL)).s
    /\ SaveAndRerun(selected_date, LEETCODE_LIST_URL, StrV(new_leetcode_list_url))

\* the "Number of days to display" input changed: the keyed widget writes the
\* session state before the run starts
SetDays(selected_date, n) ==
    /\ error = NO_ERROR
    /\ <<n>> # days_to_display_input
    /\ days_to_display_input' = <<n>>
    /\ Rerun(db, get_cache, n, today, selected_date)
    /\ UNCHANGED <<db, save_cache, loopvars, usersvars, remindervars>>

\* ttl=3600 passes for a cached entry
ExpireGetCache ==
    /\ get_cache # <<>>
    /\ get_cache' = <<>>
    /\ UNCHANGED <<db, save_cache, today, days_to_display_input, data, viewvars, loopvars, usersvars, remindervars>>

ExpireSaveCache ==
    /\ save_cache # {}
    /\ save_cache' = {}
    /\ UNCHANGED <<db, get_cache, today, days_to_display_input, data, viewvars, loopvars, usersvars, remindervars>>

Next ==
    \/ \E t \in Clock : \E sel \in Selectable(t) : Render(t, sel)
    \/ \E sel \in Selectable(today), c \in COUNT_INPUTS : SaveProgress(sel, c)
    \/ \E sel \in Selectable(today), u \in URL_INPUTS : UpdateUrl(sel, u)
    \/ \E sel \in Selectable(today), n \in 1..MaxDays : SetDays(sel, n)
    \/ ExpireGetCache
    \/ ExpireSaveCache

Spec == Init /\ [][Next]_vars

\* --------------------------------------- calculate_current_streak, by steps

\* how many days before today the short histories reach
MaxShort == 3

\* by how many days the longest run of logged days exceeds the walk's limit
MaxOverrun == 2

STREAK_VALUES ==
    {IntV(30), Rec(30, 0, 0), Rec(10, 5, 0), DictV([f \in {"easy"} |-> 30]), StrV("n/a")}

SHORT_HISTORIES ==
    {DocOf(values, NoneV) : values \in [(FIRST_DAY - MaxShort)..FIRST_DAY -> STREAK_VALUES \cup {NoneV}]}

\* the goal met on each of the len days that end at the day last
LongRun(last, len) == [k \in {strftime(o) : o \in (last - len + 1)..last} |-> Rec(30, 0, 0)]

LONG_HISTORIES ==
    {LongRun(last, len) :
        last \in {FIRST_DAY - 1, FIRST_DAY},
        len \in STREAK_LIMIT_DAYS..(STREAK_LIMIT_DAYS + MaxOverrun)}

\* calculate_current_streak(data, DAILY_GOAL) is entered
InitStreak ==
    /\ data \in SHORT_HISTORIES \cup LONG_HISTORIES
    /\ today = FIRST_DAY
    /\ pc = "loop"
    /\ current_date = today
    /\ streak = 0
    /\ date_str = <<>>
    /\ iterations = 0
    /\ db = <<>>
    /\ get_cache = <<>>
    /\ save_cache = {}
    /\ days_to_display_input = <<>>
    /\ error = "not run"
    /\ df_chart_display = <<>>
    /\ questions_solved_today = <<>>
    /\ daily_goal_percentage = <<>>
    /\ total_solved_all_time = <<>>
    /\ current_streak = <<>>
    /\ df_status_cards = <<>>
    /\ documents = <<>>
    /\ get_entries = <<>>
    /\ save_entries = {}
    /\ loaded = <<>>
    /\ edit = <<>>
    /\ edits = 0
    /\ now = 0
    /\ app_load_time = <<>>
    /\ reminder_triggered = <<>>
    /\ reminder_shown = FALSE
    /\ shown_since_reset = 0

\* the loop condition holds: one pass through the body
StreakIterate ==
    /\ pc = "loop"
    /\ current_date >= limit_date(today)
    /\ LET r == StreakBody(data, DAILY_GOAL, today, current_date, streak)
       IN  /\ date_str' = strftime(current_date)
           /\ iterations' = iterations + 1
           /\ streak' = r.streak
           /\ current_date' = r.current_date
           /\ pc' = IF r.break THEN "done" ELSE "loop"
    /\ UNCHANGED <<storevars, today, days_to_display_input, data, viewvars, usersvars,
                   remindervars>>

\* the loop condition fails: return streak
StreakReturn ==
    /\ pc = "loop"
    /\ ~(current_date >= limit_date(today))
    /\ pc' = "done"
    /\ UNCHANGED <<storevars, today, days_to_display_input, data, viewvars,
                   current_date, streak, date_str, iterations, usersvars, remindervars>>

NextStreak == StreakIterate \/ StreakReturn

SpecStreak == InitStreak /\ [][NextStreak]_vars

\* ----------------------------------------- the store shared by several users

\* the user_uid values of the users logged in to the one server process
USERS == {"uid-1", "uid-2"}

\* how many handlers may save
MaxEdits == 3

\* the date every script run of this specification takes place on
STORE_DAY == FIRST_DAY

\* what the users type into the list URL input
STORE_URL_INPUTS == {CUSTOM_LIST_URL, DEFAULT_LIST_URL}

\* the documents the collection may hold at the start: the day before absent or
\* a legacy integer, the day absent or a record
STORE_DOCS ==
    {DocOf(values, NoneV) :
        values \in {v \in [(STORE_DAY - 1)..STORE_DAY -> {NoneV, IntV(30), Rec(10, 5, 0)}] :
                        /\ v[STORE_DAY - 1] \in {NoneV, IntV(30)}
                        /\ v[STORE_DAY] \in {NoneV, Rec(10, 5, 0)}}}

InitStore ==
    /\ documents \in [USERS -> {<<>>} \cup {<<d>> : d \in STORE_DOCS}]
    /\ get_entries = [u \in USERS |-> <<>>]
    /\ save_entries = {}
    /\ loaded = [u \in USERS |-> <<>>]
    /\ edit = <<>>
    /\ edits = 0
    /\ db = <<>>
    /\ get_cache = <<>>
    /\ save_cache = {}
    /\ today = STORE_DAY
    /\ days_to_display_input = <<>>
    /\ data = <<>>
    /\ error = "not run"
    /\ df_chart_display = <<>>
    /\ questions_solved_today = <<>>
    /\ daily_goal_percentage = <<>>
    /\ total_solved_all_time = <<>>
    /\ current_streak = <<>>
    /\ df_status_cards = <<>>
    /\ pc = "idle"
    /\ current_date = FIRST_DAY
    /\ streak = 0
    /\ date_str = <<>>
    /\ iterations = 0
    /\ now = 0
    /\ app_load_time = <<>>
    /\ reminder_triggered = <<>>
    /\ reminder_shown = FALSE
    /\ shown_since_reset = 0

\* the data_to_save the cache of save_data_to_firestore holds for the user
SavedFor(entries, user_uid) == {e[2] : e \in {x \in entries : x[1] = user_uid}}

\* A script run of the user's session with no handler firing (line 190).
LoadFor(user_uid) ==
    LET d == get_user_data_from_firestore(get_entries[user_uid], documents[user_uid])
    IN  /\ get_entries' = [get_entries EXCEPT ![user_uid] = <<d>>]
        /\ loaded' = [loaded EXCEPT ![user_uid] = <<d>>]
        /\ UNCHANGED <<documents, save_entries, edit, edits>>
        /\ UNCHANGED <<storevars, today, days_to_display_input, data, viewvars, loopvars,
                       remindervars>>

\* A script run of the user's session in which a handler mutates data, saves
\* it and calls st.rerun() (lines 329-332, 344-348), and the run that follows.
\* The run reaches the handler only when nothing before it raises. A save that
\* runs the body clears the cached entries of every user (line 58).
SaveAndRerunFor(user_uid, selected_date, key, value) ==
    LET d == get_user_data_from_firestore(get_entries[user_uid], documents[user_uid])
        mine == SavedFor(save_entries, user_uid)
        data_to_save == Put(d, key, value)
        executed == data_to_save \notin mine
        saved == save_data_to_firestore(documents[user_uid], get_entries[user_uid], mine, data_to_save)
        reloaded == get_user_data_from_firestore(saved.get_cache, saved.db)
    IN  /\ edits < MaxEdits
        /\ \E first \in FirstOf(d) : script_error(d, first, today, selected_date) = NO_ERROR
        /\ documents' = [documents EXCEPT ![user_uid] = saved.db]
        /\ save_entries' =
              IF executed THEN {<<user_uid, x>> : x \in saved.save_cache} ELSE save_entries
        /\ get_entries' =
              [u \in USERS |->
                  IF u = user_uid THEN <<reloaded>>
                  ELSE IF executed THEN <<>> ELSE get_entries[u]]
        /\ loaded' = [loaded EXCEPT ![user_uid] = <<reloaded>>]
        /\ edit' = <<[user_uid |-> user_uid, data |-> d, key |-> key, value |-> value,
                      executed |-> executed]>>
        /\ edits' = edits + 1
        /\ UNCHANGED <<storevars, today, days_to_display_input, data, viewvars, loopvars,
                       remindervars>>

\* "Save Progress" in the user's session
SaveProgressFor(user_uid, selected_date, counts) ==
    SaveAndRerunFor(user_uid, selected_date, strftime(selected_date),
                    Rec(counts[1], counts[2], counts[3]))

\* the list URL text input changed in the user's session
UpdateUrlFor(user_uid, selected_date, new_leetcode_list_url) ==
    /\ new_leetcode_list_url #
          Get(get_user_data_from_firestore(get_entries[user_uid], documents[user_uid]),
              LEETCODE_LIST_URL, StrV(DEFAULT_LIST_URL)).s
    /\ SaveAndRerunFor(user_uid, selected_date, LEETCODE_LIST_URL, StrV(new_leetcode_list_url))

\* ttl=3600 passes for a cached entry of get_user_data_from_firestore
ExpireGetEntry(user_uid) ==
    /\ get_entries[user_uid] # <<>>
    /\ get_entries' = [get_entries EXCEPT ![user_uid] = <<>>]
    /\ UNCHANGED <<documents, save_entries, loaded, edit, edits>>
    /\ UNCHANGED <<storevars, today, days_to_display_input, data, viewvars, loopvars,
                   remindervars>>

\* ttl=3600 passes for a cached entry of save_data_to_firestore
ExpireSaveEntry(entry) ==
    /\ entry \in save_entries
    /\ save_entries' = save_entries \ {entry}
    /\ UNCHANGED <<documents, get_entries, loaded, edit, edits>>
    /\ UNCHANGED <<storevars, today, days_to_display_input, data, viewvars, loopvars,
                   remindervars>>

NextStore ==
    \/ \E u \in USERS : LoadFor(u)
    \/ \E u \in USERS, c \in COUNT_INPUTS : SaveProgressFor(u, STORE_DAY, c)
    \/ \E u \in USERS, url \in STORE_URL_INPUTS : UpdateUrlFor(u, STORE_DAY, url)
    \/ \E u \in USERS : ExpireGetEntry(u)
    \/ \E e \in save_entries : ExpireSaveEntry(e)

SpecStore == InitStore /\ [][NextStore]_vars

\* ------------------------------------------------------------- the reminder

\* for how many reminder intervals the clock runs
MaxIntervals == 3

\* the seconds that may pass between two script runs: none, ten minutes, one
\* second less than the interval, the interval
TIME_STEPS ==
    {0, 10 * 60, REMINDER_INTERVAL_MINUTES * 60 - 1, REMINDER_INTERVAL_MINUTES * 60}

LAST_SECOND == MaxIntervals * REMINDER_INTERVAL_MINUTES * 60

\* the reminder logic that shows the reminder whenever the interval has passed
reminder_logic_IgnoresTriggered(time, load_time, triggered) ==
    LET elapsed_time == time - load_time
    IN  IF elapsed_time >= REMINDER_INTERVAL_MINUTES * 60
        THEN [shown |-> TRUE, reminder_triggered |-> TRUE]
        ELSE [shown |-> FALSE, reminder_triggered |-> triggered]

\* lines 588-592: whether st.error shows the reminder, and reminder_triggered after
reminder_logic(time, load_time, triggered) ==
    LET elapsed_time == time - load_time
    IN  IF elapsed_time >= REMINDER_INTERVAL_MINUTES * 60 /\ ~triggered
        THEN [shown |-> TRUE, reminder_triggered |-> TRUE]
        ELSE [shown |-> FALSE, reminder_triggered |-> triggered]

InitReminder ==
    /\ now = 0
    /\ app_load_time = <<>>
    /\ reminder_triggered = <<>>
    /\ reminder_shown = FALSE
    /\ shown_since_reset = 0
    /\ documents = <<>>
    /\ get_entries = <<>>
    /\ save_entries = {}
    /\ loaded = <<>>
    /\ edit = <<>>
    /\ edits = 0
    /\ db = <<>>
    /\ get_cache = <<>>
    /\ save_cache = {}
    /\ today = FIRST_DAY
    /\ days_to_display_input = <<>>
    /\ data = <<>>
    /\ error = "not run"
    /\ df_chart_display = <<>>
    /\ questions_solved_today = <<>>
    /\ daily_goal_percentage = <<>>
    /\ total_solved_all_time = <<>>
    /\ current_streak = <<>>
    /\ df_status_cards = <<>>
    /\ pc = "idle"
    /\ current_date = FIRST_DAY
    /\ streak = 0
    /\ date_str = <<>>
    /\ iterations = 0

\* The end of a script run at the given time with the given session state:
\* the reminder logic when the run gets to line 588, nothing when st.stop(),
\* st.rerun() or an exception ends the run before.
EndOfRun(time, load_time, triggered, count, reaches_reminder) ==
    LET r == reminder_logic(time, load_time, triggered)
    IN  /\ now' = time
        /\ app_load_time' = <<load_time>>
        /\ reminder_triggered' = <<IF reaches_reminder THEN r.reminder_triggered ELSE triggered>>
        /\ reminder_shown' = (reaches_reminder /\ r.shown)
        /\ shown_since_reset' =
              IF reaches_reminder /\ r.shown /\ count < 2 THEN count + 1 ELSE count
        /\ UNCHANGED <<storevars, today, days_to_display_input, data, viewvars, loopvars,
                       usersvars>>

\* A script run, some seconds after the latest: lines 98-101 set the session
\* state when the session has none.
ScriptRun(seconds, reaches_reminder) ==
    /\ now + seconds <= LAST_SECOND
    /\ IF app_load_time = <<>>
       THEN EndOfRun(now + seconds, now + seconds, FALSE, 0, reaches_reminder)
       ELSE EndOfRun(now + seconds, app_load_time[1], reminder_triggered[1],
                     shown_since_reset, reaches_reminder)

\* A script run in which "Reset Reminder Timer" is pressed (lines 366-369); the
\* button was drawn by an earlier run of the session.
ResetReminderTimer(seconds, reaches_reminder) ==
    /\ app_load_time # <<>>
    /\ now + seconds <= LAST_SECOND
    /\ EndOfRun(now + seconds, now + seconds, FALSE, 0, reaches_reminder)

\* The page is opened in a new browser session: the session state starts empty.
NewSession ==
    /\ app_load_time # <<>>
    /\ app_load_time' = <<>>
    /\ reminder_triggered' = <<>>
    /\ reminder_shown' = FALSE
    /\ shown_since_reset' = 0
    /\ UNCHANGED <<now, storevars, today, days_to_display_input, data, viewvars, loopvars,
                   usersvars>>

NextReminder ==
    \/ \E seconds \in TIME_STEPS, reaches_reminder \in BOOLEAN : ScriptRun(seconds, reaches_reminder)
    \/ \E seconds \in TIME_STEPS, reaches_reminder \in BOOLEAN :
            ResetReminderTimer(seconds, reaches_reminder)
    \/ NewSession

SpecReminder == InitReminder /\ [][NextReminder]_vars

\* ------------------------------------------------ the streak, as specified

\* the number of problems an entry stands for
Total(v) ==
    CASE v.kind = "int" -> v.n
      [] v.kind = "dict" -> SumOfFields(v)
      [] OTHER -> 0

\* the day has an entry and its total meets the goal
MeetsGoal(d, day) ==
    /\ strftime(day) \in DOMAIN d
    /\ Total(d[strftime(day)]) >= DAILY_GOAL

RunHorizon == STREAK_LIMIT_DAYS + MaxOverrun + 2

\* the length of the run of consecutive goal-meeting days that ends at last
RunLength(d, last) ==
    CHOOSE k \in 0..RunHorizon :
        /\ ~MeetsGoal(d, last - k)
        /\ \A j \in 0..(k - 1) : MeetsGoal(d, last - j)

TodayLogged == strftime(today) \in DOMAIN data

\* the 730 days of the walk's limit, as the specification states them
WALK_LIMIT == 730

\* C1 (as claimed): when today has no entry, the streak returned is the length
\* of the run of goal-meeting days that ends at yesterday.
C1_AbsentTodayIsSkipped ==
    (pc = "done" /\ ~TodayLogged) => streak = RunLength(data, today - 1)

\* C2 (as claimed): when today has an entry, the streak returned is the length
\* of the run of goal-meeting days that ends at today, whatever its length.
C2_StreakIsRunLength ==
    (pc = "done" /\ TodayLogged) => streak = RunLength(data, today)

\* C2 (amended): when today has an entry, the streak returned is the length of
\* the run of goal-meeting days that ends at today, counted over the 731 days
\* today-730 .. today only; a history that is empty gives 0.
C2_StreakIsRunLengthUpToLimit ==
    /\ (pc = "done" /\ TodayLogged) =>
            streak = Min(RunLength(data, today), STREAK_LIMIT_DAYS + 1)
    /\ (pc = "done" /\ DOMAIN data = {}) => streak = 0

\* C2 witness: the walk has returned 2 for a history whose run of two days
\* ending at today is broken by a logged day below the goal.
C2_Witness ==
    /\ pc = "done"
    /\ TodayLogged
    /\ streak = 2
    /\ strftime(today - 2) \in DOMAIN data
    /\ data[strftime(today - 2)] = Rec(10, 5, 0)

\* C10 (as claimed): the walk never looks up a date earlier than 730 days before
\* today, runs the loop body at most 730 times and returns at most 730.
C10_AtMost730Iterations ==
    /\ date_str # <<>> => to_datetime(date_str) >= today - WALK_LIMIT
    /\ iterations <= WALK_LIMIT
    /\ streak <= WALK_LIMIT

\* C10 (amended): the walk never looks up a date earlier than 730 days before
\* today; it runs the loop body at most 731 times (today-730 .. today, both
\* ends included), each pass but the last moving one day back, and returns at
\* most 731.
C10_AtMost731Iterations ==
    /\ date_str # <<>> => to_datetime(date_str) >= today - WALK_LIMIT
    /\ iterations <= WALK_LIMIT + 1
    /\ streak <= iterations
    /\ pc = "loop" => iterations = today - current_date
    /\ pc = "done" => iterations \in {today - current_date, today - current_date + 1}

\* C10 witness: the walk has ended after 731 passes with a streak of 731.
C10_Witness == pc = "done" /\ iterations = WALK_LIMIT + 1 /\ streak = WALK_LIMIT + 1

\* ------------------------------------------- the aggregations, as specified

\* the window length of the latest run
WindowLength == default_days_to_display(days_to_display_input)

\* what the latest run showed
View ==
    [error |-> error, df_chart_display |-> df_chart_display,
     questions_solved_today |-> questions_solved_today,
     daily_goal_percentage |-> daily_goal_percentage,
     total_solved_all_time |-> total_solved_all_time,
     current_streak |-> current_streak, df_status_cards |-> df_status_cards]

\* every result a run over the history d may show
Outcomes(d, selected_date) ==
    {RunScript(d, first_is_dict, WindowLength, today, selected_date) : first_is_dict \in FirstOf(d)}

DateKeys(d) == {k \in DOMAIN d : k # LEETCODE_LIST_URL}

\* the history d with the key removed
Without(d, key) == [k \in DOMAIN d \ {key} |-> d[k]]

\* a record {easy: n, medium: 0, hard: 0} with n >= 0
IsEasyOnly(v) ==
    /\ v.kind = "dict"
    /\ DOMAIN v.d = FIELDS
    /\ v.d["easy"] >= 0 /\ v.d["medium"] = 0 /\ v.d["hard"] = 0

\* neither an integer nor a record with all of easy, medium and hard
IsMalformed(v) == ~(v.kind = "int" \/ (v.kind = "dict" /\ FIELDS \subseteq DOMAIN v.d))

\* the record a stored entry stands for
RecordOf(d, day) ==
    LET v == Get(d, strftime(day), NoneV)
    IN  CASE v.kind = "int" -> <<v.n, 0, 0>>
          [] v.kind = "dict" -> <<Get0(v, "easy"), Get0(v, "medium"), Get0(v, "hard")>>
          [] OTHER -> <<0, 0, 0>>

\* C3 (as claimed): replacing a record {easy: n, medium: 0, hard: 0} by the
\* legacy integer n changes nothing a run may show, a failure included.
C3_LegacyIntegerReadAsRecord ==
    \A k \in DateKeys(data) :
        IsEasyOnly(data[k]) =>
            \A sel \in Selectable(today) :
                Outcomes(Put(data, k, IntV(data[k].d["easy"])), sel) = Outcomes(data, sel)

\* C4 (as claimed): a malformed entry is skipped: a run over the history shows
\* what a run over the history without the entry shows, a failure included.
C4_MalformedEntryIsSkipped ==
    \A k \in DateKeys(data) :
        IsMalformed(data[k]) =>
            \A sel \in Selectable(today) : Outcomes(data, sel) = Outcomes(Without(data, k), sel)

\* C5 (as claimed): nothing a run shows is negative: no day's total in the
\* window or on a card, not today's total, its percentage or a card's, and not
\* the all-time total.
C5_NothingShownIsNegative ==
    /\ \A x \in DOMAIN df_chart_display : df_chart_display[x].Questions_Solved >= 0
    /\ \A x \in DOMAIN df_status_cards :
            df_status_cards[x].solved_count >= 0 /\ df_status_cards[x].percentage >= 0
    /\ questions_solved_today # <<>> => questions_solved_today[1] >= 0
    /\ daily_goal_percentage # <<>> => daily_goal_percentage[1] >= 0
    /\ total_solved_all_time # <<>> => total_solved_all_time[1] >= 0

\* what the reserved key may hold in a history
URL_VARIANTS == {StrV(CUSTOM_LIST_URL), IntV(30), Rec(30, 0, 0)}

\* C6: the reserved key influences no date-keyed aggregation: whatever a run
\* over a history may show, it may show over the same history with the reserved
\* key absent or holding any other value, and the other way round; what the
\* latest run showed is a result of the history without the reserved key.
C6_ReservedKeyIsNoDate ==
    LET bare == Without(data, LEETCODE_LIST_URL)
    IN  /\ \A sel \in Selectable(today) :
                LET shown == Outcomes(bare, sel)
                IN  \A u \in URL_VARIANTS : Outcomes(Put(bare, LEETCODE_LIST_URL, u), sel) = shown
        /\ error # "not run" => \E sel \in Selectable(today) : View \in Outcomes(bare, sel)

\* C6 witness: a run over a history that holds the reserved key and logged
\* days has shown every aggregate.
C6_Witness ==
    /\ error = NO_ERROR
    /\ LEETCODE_LIST_URL \in DOMAIN data
    /\ total_solved_all_time[1] > 0
    /\ current_streak[1] > 0

\* C7 (as claimed): after a run the trailing window has one entry for each date
\* today-(N-1) .. today, ascending, each the stored record of its date or
\* {0,0,0} when the date has no entry.
C7_TrailingWindowIsTheStoredRecords ==
    error # "not run" =>
        /\ Len(df_chart_display) = WindowLength
        /\ \A x \in DOMAIN df_chart_display :
              /\ df_chart_display[x].Date = today - (WindowLength - 1) + (x - 1)
              /\ <<df_chart_display[x].easy, df_chart_display[x].medium, df_chart_display[x].hard>>
                    = RecordOf(data, df_chart_display[x].Date)

\* the window lengths the claims are checked for
WINDOW_LENGTHS == (1..MaxDays) \cup {DEFAULT_DAYS_TO_DISPLAY}

\* the cards are those of the dates today .. today+(n-1), every card of a later
\* date is upcoming at 0 percent, and today's is goal-met or below-goal by its total
CardsAsSpecified(cards, n) ==
    /\ Len(cards) = n
    /\ \A x \in 1..n :
          /\ cards[x].Date = today + (x - 1)
          /\ cards[x].Date > today => cards[x].card_class = "upcoming" /\ cards[x].percentage = 0
          /\ cards[x].Date = today =>
                cards[x].card_class =
                    IF cards[x].solved_count >= DAILY_GOAL THEN "goal-met" ELSE "below-goal"

\* C8: for every window length N the forward status series of the loaded
\* history has exactly N cards, for today .. today+(N-1) ascending; a card of a
\* date after today is upcoming with percentage 0 whatever is stored for it,
\* and today's card is goal-met or below-goal by its total. The cards a run
\* shows are that series, today's total being the total of today's entry.
C8_FutureCardsAreUpcoming ==
    /\ \A n \in WINDOW_LENGTHS : CardsAsSpecified(status_cards(data, n, today), n)
    /\ df_status_cards # <<>> =>
          /\ df_status_cards = status_cards(data, WindowLength, today)
          /\ df_status_cards[1].solved_count = Total(Get(data, strftime(today), NoneV))

\* C8 witness: a run has shown an upcoming card at 0 percent for a future date
\* whose stored record meets the goal.
C8_Witness ==
    /\ Len(df_status_cards) >= 2
    /\ df_status_cards[2].card_class = "upcoming"
    /\ df_status_cards[2].percentage = 0
    /\ df_status_cards[2].solved_count >= DAILY_GOAL

CARD_DATES == FIRST_DAY..(LAST_DAY + DEFAULT_DAYS_TO_DISPLAY + MaxDays)

\* the class of the card shown for the date, "none" when no card is shown for it
ClassShown(cards, date) ==
    IF \E x \in DOMAIN cards : cards[x].Date = date
    THEN cards[CHOOSE x \in DOMAIN cards : cards[x].Date = date].card_class
    ELSE "none"

\* the class of a card as a function of its date, today, the stored total and the goal
ClassOf(date, t, total) ==
    IF date > t THEN "upcoming" ELSE IF total >= DAILY_GOAL THEN "goal-met" ELSE "below-goal"

\* C9: across script runs, a date whose card has been shown goal-met or
\* below-goal is never shown upcoming again, and the class every card shows is
\* the one derived from its date, today, the total stored for the date and the
\* goal.
C9_ClassificationIsOneWay ==
    [][/\ \A date \in CARD_DATES :
            ClassShown(df_status_cards, date) \in {"goal-met", "below-goal"}
                => ClassShown(df_status_cards', date) # "upcoming"
       /\ \A x \in DOMAIN df_status_cards' :
            df_status_cards'[x].card_class =
                ClassOf(df_status_cards'[x].Date, today',
                        Total(Get(data', strftime(df_status_cards'[x].Date), NoneV)))
      ]_vars

\* C9 witness: today has advanced and the card of the new day, upcoming on the
\* first day, is shown goal-met.
C9_Witness ==
    /\ today > FIRST_DAY
    /\ df_status_cards # <<>>
    /\ df_status_cards[1].Date = today
    /\ df_status_cards[1].card_class = "goal-met"

\* ------------------------------------------------ the store, as specified

\* the history a script run of the user loads from the store itself
StoredHistory(user_uid) == get_user_data_from_firestore(<<>>, documents[user_uid])

RunWithoutEdit ==
    \/ \E t \in Clock : \E sel \in Selectable(t) : Render(t, sel)
    \/ \E sel \in Selectable(today), n \in 1..MaxDays : SetDays(sel, n)

\* C12: the computations are pure readers. In every script run in which the
\* user neither saves progress nor changes the URL, the history in memory after
\* the computations is the history the run loaded, the stored document is
\* unchanged and no save is issued.
C12_ComputationsArePureReaders ==
    [][RunWithoutEdit =>
          /\ data' = get_user_data_from_firestore(get_cache, db)
          /\ db' = db
          /\ save_cache' = save_cache
      ]_vars

\* C12 witness: a run over a stored history with a legacy integer has computed
\* every aggregate and the cards, and no save has been issued.
C12_Witness ==
    /\ error = NO_ERROR
    /\ db # <<>>
    /\ data = db[1]
    /\ \E k \in DOMAIN data : data[k].kind = "int"
    /\ total_solved_all_time # <<>>
    /\ current_streak # <<>>
    /\ Len(df_chart_display) > 0
    /\ Len(df_status_cards) > 0
    /\ save_cache = {}

\* ---------------------------------------------------- the reminder, as specified

\* C13: the reminder is shown at most once between two settings of the timer.
\* A run shows it only when at least REMINDER_INTERVAL_MINUTES minutes have
\* passed since app_load_time and reminder_triggered was false before the run;
\* showing it sets reminder_triggered; and reminder_triggered stays true until
\* the session starts anew or Reset Reminder Timer sets app_load_time to now
\* and reminder_triggered to false.
C13_ReminderAtMostOncePerReset ==
    /\ [](shown_since_reset <= 1)
    /\ [](reminder_shown =>
            /\ now - app_load_time[1] >= REMINDER_INTERVAL_MINUTES * 60
            /\ reminder_triggered = <<TRUE>>)
    /\ [][reminder_shown' => reminder_triggered = <<FALSE>>]_remindervars
    /\ [][reminder_triggered = <<TRUE>> /\ reminder_triggered' # <<TRUE>> =>
            \/ app_load_time' = <<>> /\ reminder_triggered' = <<>>
            \/ app_load_time' = <<now'>> /\ reminder_triggered' = <<FALSE>>
         ]_remindervars

\* C13 witness: the reminder was shown once, two intervals have passed since
\* app_load_time, and the latest run did not show it again.
C13_Witness ==
    /\ reminder_triggered = <<TRUE>>
    /\ shown_since_reset = 1
    /\ ~reminder_shown
    /\ now - app_load_time[1] >= 2 * REMINDER_INTERVAL_MINUTES * 60

====
